---- MODULE Spec2Model ----
(***************************************************************************)
(* Admission control and command channel of the Foodyeh backend:           *)
(*   - RateLimiter (backend/utils/rate_limiter.py) over a Redis store of   *)
(*     sorted sets,                                                        *)
(*   - MQTTService (backend/services/mqtt_client.py) over a broker client. *)
(* The two components share no state; each has its own specification       *)
(* (SpecLimiter, SpecChannel) over the variables of this module.           *)
(***************************************************************************)
EXTENDS Integers, FiniteSets, Sequences, TLC

(***************************************************************************)
(* Bounds of the model.                                                    *)
(***************************************************************************)
MaxTicks == 2
MaxEvents == 3
MaxRun == 4
MaxLimit == 2
MaxDrops == 7
MaxChTicks == 2
NumCallers == 2
NumPublishers == 2
MaxCalls == 3

(***************************************************************************)
(* Program constants.                                                      *)
(***************************************************************************)
MINUTE_SECONDS == 60
HOUR_SECONDS == 3600
max_connection_attempts == 5

Windows == {"minute", "hour"}
\* the identities that send requests: an address and a token hash
Identities == {<<"ip", "a">>, <<"token", "a">>}
\* a second client address, and every identity the store holds counters of
MoreIdentities == {<<"ip", "b">>}
AllIdentities == Identities \cup MoreIdentities
Limits == 1..MaxLimit
\* clock values the limiter starts at, and the steps the clock advances by:
\* just before a minute and hour boundary, so that both the same window and the
\* next window are reached
StartTimes == {58}
TickSteps == {1, 3600}

Min(a, b) == IF a < b THEN a ELSE b

VARIABLES
    \* ---- RateLimiter and its store
    now,            \* int(time.time())
    ticks,          \* number of clock advances so far
    store_up,       \* the Redis server is reachable
    redis_handle,   \* self.redis is not None
    redis_store,    \* key -> [members, expire_at]: the sorted sets of the store
    cleared,        \* keys of the latest clear_rate_limits not admitted since
    lim_last,       \* the latest limiter operation and what it returned
    \* ---- MQTTService and its broker client
    is_connected,          \* self.is_connected
    connection_attempts,   \* self.connection_attempts
    sock,                  \* the broker client's connection
    loop_running,          \* the broker client's network thread runs
    attempt_origin,        \* who started the connection attempt in flight
    consec_drops,          \* unexpected disconnects since the last success
    disconnect_requested,  \* disconnect() was called and connect() not since
    ever_connected,        \* a broker acknowledgement succeeded at least once
    subscriptions,         \* topic filters the broker holds for the connection
    ch_now,                \* datetime.utcnow(), in seconds since start-up
    ch_ticks,              \* number of advances of ch_now so far
    last_connection_time,  \* self.last_connection_time
    last_message_time,     \* self.last_message_time
    message_handlers,      \* the topics self.message_handlers has a handler for
    ch_last,               \* the latest channel operation and what it returned
    \* ---- concurrent callers
    adm,                   \* per caller: its _is_rate_limited call in progress
    pub,                   \* per publisher: its publish call in progress
    \* ---- history
    calls,                 \* the recorded _is_rate_limited calls
    \* ---- routers
    http_last              \* the latest request handled and its response

lim_vars == <<now, ticks, store_up, redis_handle, redis_store,
              cleared, lim_last>>
ch_vars == <<is_connected, connection_attempts, sock, loop_running,
             attempt_origin, consec_drops, disconnect_requested,
             ever_connected, subscriptions, ch_now, ch_ticks,
             last_connection_time, last_message_time, message_handlers,
             ch_last>>
aux_vars == <<adm, pub, calls, http_last>>
vars == <<lim_vars, ch_vars, aux_vars>>

(***************************************************************************)
(* RateLimiter                                                             *)
(***************************************************************************)

\* a key that leaves the identifier out: one counter for a whole scope
generate_key_NoIdentifier(prefix, identifier, window) ==
    <<"rate_limit", prefix, "a", window>>

\* f"rate_limit:{prefix}:{identifier}:{window}"
generate_key(prefix, identifier, window) ==
    <<"rate_limit", prefix, identifier, window>>

Keys == {generate_key(id[1], id[2], w) : id \in AllIdentities, w \in Windows}

\* the window length check_rate_limit pairs with each window name
WindowSeconds(window) ==
    IF window = "minute" THEN MINUTE_SECONDS ELSE HOUR_SECONDS

\* A sorted set whose members are str(t) with score t: the member is the decimal
\* text of its own score, so the set of scores stands for the sorted set and two
\* adds of one second are one member.  An empty sorted set is a missing key.
NoKey == [members |-> {}, expire_at |-> 0]

ZRemRangeByScore(zset, lo, hi) ==
    {m \in zset : ~(lo <= m /\ m <= hi)}

ZAdd(zset, t) == zset \cup {t}

ZCard(zset) == Cardinality(zset)

\* store-side expiry: a key whose time to live has run out is gone
Expired(entry, t) ==
    IF entry.members # {} /\ t >= entry.expire_at THEN NoKey ELSE entry

\* a delete that removes nothing
DeleteKeys_Nothing(store, keys) == store

\* redis.delete(*keys)
DeleteKeys(store, keys) ==
    [k \in Keys |-> IF k \in keys THEN NoKey ELSE store[k]]

\* the pipeline of _is_rate_limited: zremrangebyscore, zadd, zcard, expire
WindowStart(t, window_seconds) == t - (t % window_seconds)

PipelineMembers(zset, t, window_seconds) ==
    ZAdd(ZRemRangeByScore(zset, 0, WindowStart(t, window_seconds) - 1), t)

PipelineEntry(entry, t, window_seconds) ==
    LET ms == PipelineMembers(entry.members, t, window_seconds)
    IN  IF ms = {} THEN NoKey
        ELSE [members |-> ms, expire_at |-> t + window_seconds]

IsLimited_AtLimit(current_count, limit) == current_count >= limit

\* "is_limited = current_count > limit"
IsLimited(current_count, limit) == current_count > limit

Remaining_Elapsed(t, window_seconds) == t % window_seconds

\* "remaining_time = window_seconds - (current_time % window_seconds)"
Remaining(t, window_seconds) == window_seconds - (t % window_seconds)

\* a clear that forgets the hour counter
ClearKeys_MinuteOnly(limit_type, identifier) ==
    {generate_key(limit_type, identifier, "minute")}

\* the clear_rate_limits keys of one identity
ClearKeys(limit_type, identifier) ==
    {generate_key(limit_type, identifier, "minute"),
     generate_key(limit_type, identifier, "hour")}

\* the number of events the store holds, over all keys
TotalEvents(store) ==
    Cardinality(UNION {{<<k, m>> : m \in store[k].members} : k \in Keys})

\* RateLimiter.__init__: redis.ping() raises ConnectionError when the store is
\* unreachable and self.redis becomes None
LimInit ==
    /\ now \in StartTimes
    /\ ticks = 0
    /\ store_up \in BOOLEAN
    /\ redis_handle = store_up
    /\ redis_store = [k \in Keys |-> NoKey]
    /\ cleared = {}
    /\ lim_last = [op |-> "init"]

\* the history of a burst: the length of the sequence of consecutive calls on
\* one key, within one clock second, that began on a fresh key
NextRun(key) ==
    IF lim_last.op = "admit" /\ lim_last.key = key /\ lim_last.run_n > 0
    THEN Min(lim_last.run_n + 1, MaxRun)
    ELSE IF redis_store[key].members = {} THEN 1
    ELSE 0

AfterClear(key) ==
    IF \E c \in cleared : c[1] = key
    THEN (CHOOSE c \in cleared : c[1] = key)[2]
    ELSE -1

\* the call log with one more call on key at time t, allowed or not:
\* <<key, time, n-th of that second, allowed>>
Recorded(log, key, t, allowed) ==
    log \cup {<<key, t, 1 + Cardinality({c \in log : c[1] = key /\ c[2] = t}),
                allowed>>}

\* RateLimiter._is_rate_limited(key, limit, window_seconds); with recorded,
\* a call that ran its pipeline is entered in the call log
AdmitCall(prefix, identifier, window, limit, recorded) ==
    LET key == generate_key(prefix, identifier, window)
        window_seconds == WindowSeconds(window)
        entry == PipelineEntry(redis_store[key], now, window_seconds)
        current_count == ZCard(entry.members)
        base == [op |-> "admit", key |-> key, limit |-> limit,
                 prefix |-> prefix, identifier |-> identifier,
                 window_seconds |-> window_seconds, at |-> now,
                 handle |-> redis_handle, up |-> store_up,
                 after_clear |-> AfterClear(key)]
    IN  /\ TotalEvents([redis_store EXCEPT ![key] = entry]) <= MaxEvents
        /\ recorded => Cardinality(calls) < MaxCalls
        /\ calls' = IF recorded /\ redis_handle /\ store_up
                    THEN Recorded(calls, key, now,
                                  ~IsLimited(current_count, limit))
                    ELSE calls
        /\ cleared' = {c \in cleared : c[1] # key}
        /\ IF ~redis_handle
           THEN \* "Redis not available, skipping rate limiting"
                /\ lim_last' = base @@ [outcome |-> "returned",
                                        is_limited |-> FALSE,
                                        current_count |-> 0,
                                        remaining |-> 0, run_n |-> 0]
                /\ UNCHANGED redis_store
           ELSE IF ~store_up
           THEN \* pipe.execute() raises redis.ConnectionError, not caught here
                /\ lim_last' = base @@ [outcome |-> "raised",
                                        is_limited |-> FALSE,
                                        current_count |-> 0,
                                        remaining |-> 0, run_n |-> 0]
                /\ UNCHANGED redis_store
           ELSE /\ redis_store' = [redis_store EXCEPT ![key] = entry]
                /\ lim_last' = base @@
                       [outcome |-> "returned",
                        is_limited |-> IsLimited(current_count, limit),
                        current_count |-> current_count,
                        remaining |-> Remaining(now, window_seconds),
                        run_n |-> NextRun(key)]
        /\ UNCHANGED <<now, ticks, store_up, redis_handle>>
        /\ UNCHANGED ch_vars
        /\ UNCHANGED <<adm, pub, http_last>>

Admit(prefix, identifier, window, limit) ==
    AdmitCall(prefix, identifier, window, limit, FALSE)

\* the same call, entered in the call log
AdmitRecorded(prefix, identifier, window, limit) ==
    AdmitCall(prefix, identifier, window, limit, TRUE)

\* a clear that looks at the store alone, not at the handle
ClearRet_StoreOnly(handle, up) == up

\* RateLimiter.clear_rate_limits(identifier, limit_type)
ClearRet(handle, up) == handle /\ up

Clear(limit_type, identifier) ==
    LET keys == ClearKeys(limit_type, identifier)
        ret == ClearRet(redis_handle, store_up)
        again == /\ lim_last.op = "clear"
                 /\ lim_last.limit_type = limit_type
                 /\ lim_last.identifier = identifier
                 /\ lim_last.ret
    IN  /\ lim_last' = [op |-> "clear", limit_type |-> limit_type,
                        identifier |-> identifier, ret |-> ret,
                        handle |-> redis_handle, up |-> store_up,
                        held |-> {k \in keys : redis_store[k].members # {}},
                        again |-> again,
                        prev_held |-> IF again THEN lim_last.held ELSE {}]
        /\ IF ret
           THEN /\ redis_store' = DeleteKeys(redis_store, keys)
                /\ cleared' = {<<k, ZCard(redis_store[k].members)>> : k \in keys}
           ELSE UNCHANGED <<redis_store, cleared>>
        /\ UNCHANGED <<now, ticks, store_up, redis_handle>>
        /\ UNCHANGED ch_vars
        /\ UNCHANGED aux_vars

\* settings.rate_limit_per_minute, settings.rate_limit_per_hour
rate_limit_per_minute == 60
rate_limit_per_hour == 1000

\* a limit argument: 0 stands for None (either is falsy in "x or default")
LimitArgs == {0} \cup Limits

\* "limit_per_minute or settings.rate_limit_per_minute"
EffectiveLimit(given, default) == IF given = 0 THEN default ELSE given

\* the Authorization header of a request: no bearer token, or a token
NoToken == "none"
Tokens == {NoToken, "t1"}
ClientIps == {"a"}

\* hashlib.sha256(token.encode()).hexdigest(): the digest of the one token
token_hash(token) == IF token = "t1" THEN "a" ELSE "e3b0"

NoDetail == [error |-> "none"]

\* the detail of the HTTPException(status_code=429) of one failed check
Detail(error, limit_type, limit, current, reset) ==
    [error |-> error, limit_type |-> limit_type, limit |-> limit,
     current |-> current, reset_in_seconds |-> reset]

\* the store after the pipeline of one _is_rate_limited call
StoreAfter(store, key, t, window_seconds) ==
    [store EXCEPT ![key] = PipelineEntry(store[key], t, window_seconds)]

FirstDenial_HourFirst(limited_minute, limited_hour) ==
    IF limited_hour THEN "per_hour"
    ELSE IF limited_minute THEN "per_minute"
    ELSE "none"

\* the order of the two tests after a pair of checks:
\* "if is_limited_minute: raise ..." comes before "if is_limited_hour: raise ..."
FirstDenial(limited_minute, limited_hour) ==
    IF limited_minute THEN "per_minute"
    ELSE IF limited_hour THEN "per_hour"
    ELSE "none"

\* one scope of check_rate_limit: both _is_rate_limited calls, then the tests
CheckScope(store, t, prefix, identifier, error, per_minute, per_hour) ==
    LET key_minute == generate_key(prefix, identifier, "minute")
        key_hour == generate_key(prefix, identifier, "hour")
        s1 == StoreAfter(store, key_minute, t, MINUTE_SECONDS)
        s2 == StoreAfter(s1, key_hour, t, HOUR_SECONDS)
        count_minute == ZCard(s1[key_minute].members)
        count_hour == ZCard(s2[key_hour].members)
        first == FirstDenial(IsLimited(count_minute, per_minute),
                             IsLimited(count_hour, per_hour))
    IN  [store |-> s2,
         checked |-> <<key_minute, key_hour>>,
         denied |-> first # "none",
         detail |->
            IF first = "per_minute"
            THEN Detail(error, "per_minute", per_minute, count_minute,
                        Remaining(t, MINUTE_SECONDS))
            ELSE IF first = "per_hour"
            THEN Detail(error, "per_hour", per_hour, count_hour,
                        Remaining(t, HOUR_SECONDS))
            ELSE NoDetail]

\* RateLimiter.check_rate_limit as a function of the store and the request
check_rate_limit(store, t, handle, up, client_ip, token, lpm, lph) ==
    LET per_minute == EffectiveLimit(lpm, rate_limit_per_minute)
        per_hour == EffectiveLimit(lph, rate_limit_per_hour)
        ip == CheckScope(store, t, "ip", client_ip, "Rate limit exceeded",
                         per_minute, per_hour)
        tk == CheckScope(ip.store, t, "token", token_hash(token),
                         "Token rate limit exceeded", per_minute, per_hour)
    IN  IF ~handle
        THEN [store |-> store, outcome |-> "skipped", detail |-> NoDetail,
              checked |-> <<>>]
        ELSE IF ~up
        THEN [store |-> store, outcome |-> "raised", detail |-> NoDetail,
              checked |-> <<>>]
        ELSE IF ip.denied
        THEN [store |-> ip.store, outcome |-> "denied", detail |-> ip.detail,
              checked |-> ip.checked]
        ELSE IF token = NoToken
        THEN [store |-> ip.store, outcome |-> "passed", detail |-> NoDetail,
              checked |-> ip.checked]
        ELSE IF tk.denied
        THEN [store |-> tk.store, outcome |-> "denied", detail |-> tk.detail,
              checked |-> ip.checked \o tk.checked]
        ELSE [store |-> tk.store, outcome |-> "passed", detail |-> NoDetail,
              checked |-> ip.checked \o tk.checked]

\* RateLimiter.check_rate_limit(request, limit_per_minute, limit_per_hour)
CheckRateLimit(client_ip, token, limit_per_minute, limit_per_hour) ==
    \E r \in {check_rate_limit(redis_store, now, redis_handle, store_up,
                                client_ip, token,
                                limit_per_minute, limit_per_hour)} :
        /\ redis_store' = r.store
        /\ cleared' = {c \in cleared :
                         \A i \in DOMAIN r.checked : r.checked[i] # c[1]}
        /\ lim_last' = [op |-> "check", client_ip |-> client_ip,
                        token |-> token,
                        limit_per_minute |-> limit_per_minute,
                        limit_per_hour |-> limit_per_hour,
                        at |-> now, handle |-> redis_handle, up |-> store_up,
                        outcome |-> r.outcome, detail |-> r.detail,
                        checked |-> r.checked]
        /\ UNCHANGED <<now, ticks, store_up, redis_handle>>
        /\ UNCHANGED ch_vars
        /\ UNCHANGED aux_vars

\* the clock advances; the store drops the keys whose time to live has run out
Tick(d) ==
    /\ ticks < MaxTicks
    /\ ticks' = ticks + 1
    /\ now' = now + d
    /\ redis_store' = [k \in Keys |-> Expired(redis_store[k], now + d)]
    /\ lim_last' = [op |-> "tick"]
    /\ UNCHANGED <<store_up, redis_handle, cleared>>
    /\ UNCHANGED ch_vars
    /\ UNCHANGED aux_vars

\* the store becomes unreachable / reachable again; its contents survive
StoreDown ==
    /\ store_up
    /\ store_up' = FALSE
    /\ lim_last' = [op |-> "store_down"]
    /\ UNCHANGED <<now, ticks, redis_handle, redis_store, cleared>>
    /\ UNCHANGED ch_vars
    /\ UNCHANGED aux_vars

StoreUp ==
    /\ ~store_up
    /\ store_up' = TRUE
    /\ lim_last' = [op |-> "store_up"]
    /\ UNCHANGED <<now, ticks, redis_handle, redis_store, cleared>>
    /\ UNCHANGED ch_vars
    /\ UNCHANGED aux_vars

LimNext ==
    \/ \E id \in Identities, w \in Windows, l \in Limits :
           Admit(id[1], id[2], w, l)
    \/ \E id \in Identities : Clear(id[1], id[2])
    \/ \E d \in TickSteps : Tick(d)
    \/ StoreDown
    \/ StoreUp

(***************************************************************************)
(* Concurrent callers of _is_rate_limited.  A caller reads the clock       *)
(* (line 71), later sends the pipeline (lines 75-80), which the store runs *)
(* as one MULTI/EXEC transaction; other callers and the clock may run in   *)
(* between.                                                                *)
(***************************************************************************)
Callers == 1..NumCallers

\* the callers are requests of one client address
CallerIdentities == {<<"ip", "a">>}

Idle == [pc |-> "idle"]

Publishers == 1..NumPublishers

AuxInit ==
    /\ adm = [p \in Callers |-> Idle]
    /\ pub = [p \in Publishers |-> Idle]
    /\ calls = {}
    /\ http_last = [op |-> "init"]

\* lines 67-72: the handle test and current_time = int(time.time())
AdmitReadClock(p, prefix, identifier, window, limit) ==
    LET key == generate_key(prefix, identifier, window)
        call == [key |-> key, limit |-> limit,
                 window_seconds |-> WindowSeconds(window), t |-> now]
    IN  /\ adm[p].pc = "idle"
        /\ adm' = [adm EXCEPT ![p] =
                     IF ~redis_handle
                     THEN call @@ [pc |-> "done", outcome |-> "skipped",
                                   current_count |-> 0, is_limited |-> FALSE]
                     ELSE call @@ [pc |-> "timed"]]
        /\ lim_last' = [op |-> "admit_read_clock", caller |-> p]
        /\ UNCHANGED <<now, ticks, store_up, redis_handle, redis_store, cleared>>
        /\ UNCHANGED <<pub, calls, http_last>>
        /\ UNCHANGED ch_vars

\* lines 75-89: the pipeline as one transaction, and the decision
AdmitExecute(p) ==
    LET call == adm[p]
        entry == PipelineEntry(redis_store[call.key], call.t,
                               call.window_seconds)
        current_count == ZCard(entry.members)
    IN  /\ adm[p].pc = "timed"
        /\ IF ~store_up
           THEN /\ adm' = [adm EXCEPT ![p] =
                            [key |-> call.key, limit |-> call.limit,
                             window_seconds |-> call.window_seconds,
                             t |-> call.t, pc |-> "done",
                             outcome |-> "raised",
                             current_count |-> 0, is_limited |-> FALSE]]
                /\ UNCHANGED redis_store
           ELSE /\ adm' = [adm EXCEPT ![p] =
                            [key |-> call.key, limit |-> call.limit,
                             window_seconds |-> call.window_seconds,
                             t |-> call.t, pc |-> "done",
                             outcome |-> "returned",
                             current_count |-> current_count,
                             is_limited |->
                                 IsLimited(current_count, call.limit)]]
                /\ redis_store' = [redis_store EXCEPT ![call.key] = entry]
        /\ lim_last' = [op |-> "admit_execute", caller |-> p]
        /\ UNCHANGED <<now, ticks, store_up, redis_handle, cleared>>
        /\ UNCHANGED <<pub, calls, http_last>>
        /\ UNCHANGED ch_vars

\* the clock steps of the window specification: one second, and from a
\* start time to the end of its hour
WindowTickSteps ==
    {1} \cup {Remaining(t, WindowSeconds("hour")) : t \in StartTimes}

WindowNext ==
    \/ \E id \in Identities, w \in Windows, l \in Limits :
           AdmitRecorded(id[1], id[2], w, l)
    \/ \E d \in WindowTickSteps : Tick(d)

\* every caller of one key passes the same limit: the recorded calls of the
\* window specification, all made with one limit
BurstNext ==
    \/ \E id \in Identities, w \in Windows :
           AdmitRecorded(id[1], id[2], w, MaxLimit)
    \/ \E d \in WindowTickSteps : Tick(d)

\* admits, checks and clears of several identities, among them two addresses
IsolationIps == {id[2] : id \in {i \in AllIdentities : i[1] = "ip"}}

IsolationNext ==
    \/ \E id \in AllIdentities : Admit(id[1], id[2], "minute", MaxLimit)
    \/ \E ip \in IsolationIps, tok \in Tokens : CheckRateLimit(ip, tok, 0, 0)
    \/ \E id \in AllIdentities : Clear(id[1], id[2])
    \/ Tick(1)

\* the operations of a limiter, and the store going down and coming back
DegradedNext ==
    \/ \E id \in Identities, w \in Windows, l \in Limits :
           Admit(id[1], id[2], w, l)
    \/ \E ip \in ClientIps, tok \in Tokens, m \in LimitArgs, h \in LimitArgs :
           CheckRateLimit(ip, tok, m, h)
    \/ \E id \in Identities : Clear(id[1], id[2])
    \/ \E d \in TickSteps : Tick(d)
    \/ StoreDown
    \/ StoreUp

FacadeNext ==
    \/ \E ip \in ClientIps, tok \in Tokens, m \in LimitArgs, h \in LimitArgs :
           CheckRateLimit(ip, tok, m, h)
    \/ \E id \in Identities : Clear(id[1], id[2])
    \/ \E d \in TickSteps : Tick(d)
    \/ StoreDown
    \/ StoreUp

RaceNext ==
    \/ \E p \in Callers, id \in CallerIdentities, w \in Windows,
          l \in Limits :
           AdmitReadClock(p, id[1], id[2], w, l)
    \/ \E p \in Callers : AdmitExecute(p)
    \/ \E d \in TickSteps : Tick(d)
    \/ StoreDown
    \/ StoreUp

(***************************************************************************)
(* MQTTService                                                             *)
(*                                                                         *)
(* The broker client is the environment.  Its connection is `sock`:        *)
(*   "none"     no connection,                                             *)
(*   "pending"  client.connect() returned success, no acknowledgement yet, *)
(*   "refused"  the broker refused the acknowledgement,                    *)
(*   "up"       the broker acknowledged the connection.                    *)
(* client.connect() drops whatever connection there was and opens a new    *)
(* one, or fails.  The callbacks on_connect and on_disconnect are delivered *)
(* by the network thread (loop_running) for a connection that connect()    *)
(* opened.  client.loop_stop() and client.disconnect() return normally.    *)
(***************************************************************************)
ConnackCodes == {0, 5}
DisconnectCodes == {0, 1}
PublishResults == {"success", "error", "raise"}
OrderIds == {"o1"}
Commands == {"reboot"}

\* MQTTService.__init__
\* None, for a time attribute
NoTime == 0 - 1

\* the threshold of is_healthy, in seconds
STALE_SECONDS == 300

ChTickSteps == {1, STALE_SECONDS}

\* _subscribe_to_topics: the topics list
SubscribeTopics ==
    << [topic |-> <<"foodyeh", "status">>, qos |-> 1],
       [topic |-> <<"foodyeh", "order", "+", "response">>, qos |-> 1],
       [topic |-> <<"foodyeh", "error">>, qos |-> 1],
       [topic |-> <<"foodyeh", "heartbeat">>, qos |-> 0] >>

\* what one client.subscribe call does: success code, error code, exception
SubscribeOutcomes == {"ok", "error", "raise"}

\* the outcomes of the subscribe calls of one run, at most one of them failing
SubscribeRuns ==
    {o \in [1..Len(SubscribeTopics) -> SubscribeOutcomes] :
        Cardinality({i \in DOMAIN o : o[i] # "ok"}) <= 1}

\* the run in which every subscribe call succeeds
AllSubscribed == [i \in 1..Len(SubscribeTopics) |-> "ok"]

SubscribeContinues_UntilRaise(outcome) == outcome # "raise"

\* the try/except sits inside the loop: the loop goes on after any outcome
SubscribeContinues(outcome) == TRUE

RECURSIVE SubscribeFrom(_, _)
\* the subscribe requests made from the i-th topic on
SubscribeFrom(i, outcomes) ==
    IF i > Len(SubscribeTopics)
    THEN <<>>
    ELSE <<[topic |-> SubscribeTopics[i].topic, qos |-> SubscribeTopics[i].qos,
            outcome |-> outcomes[i]]>>
         \o (IF SubscribeContinues(outcomes[i])
             THEN SubscribeFrom(i + 1, outcomes)
             ELSE <<>>)

\* _subscribe_to_topics()
subscribe_to_topics(outcomes) == SubscribeFrom(1, outcomes)

Granted(requests) ==
    {requests[i].topic : i \in {j \in DOMAIN requests :
                                   requests[j].outcome = "ok"}}

msg_vars == <<ch_now, ch_ticks, last_message_time, message_handlers>>

ChInit ==
    /\ is_connected = FALSE
    /\ connection_attempts = 0
    /\ sock = "none"
    /\ loop_running = FALSE
    /\ attempt_origin = "none"
    /\ consec_drops = 0
    /\ disconnect_requested = FALSE
    /\ ever_connected = FALSE
    /\ subscriptions = {}
    /\ ch_now = 0
    /\ ch_ticks = 0
    /\ last_connection_time = NoTime
    /\ last_message_time = NoTime
    /\ message_handlers = {}
    /\ ch_last = [op |-> "init"]

\* The connection state of the data model, read off the fields of the service:
\* the flag, the attempt in flight and who started it, the attempts counted.
ChannelState ==
    IF is_connected THEN "CONNECTED"
    ELSE IF sock = "pending"
         THEN (IF attempt_origin = "auto" THEN "RECONNECTING" ELSE "CONNECTING")
    ELSE IF connection_attempts >= max_connection_attempts THEN "FAILED"
    ELSE "DISCONNECTED"

\* what every operation records of the state it was called in
Before == [was_connected |-> is_connected, was_sock |-> sock,
           was_state |-> ChannelState, was_origin |-> attempt_origin,
           drops_before |-> consec_drops]

\* the connection after self.client.connect(...) inside connect()
SockAfterConnect(ok) == IF ok THEN "pending" ELSE "none"

\* connect(): every call reaches self.client.connect(...); self.client is set by
\* _setup_client() in __init__, which raises when it cannot create it
ConnectDials(connected, s) == TRUE

\* connect() returns True when client.connect() returned MQTT_ERR_SUCCESS and
\* False when it returned another code or raised
ConnectRet(ok) == ok

\* an acknowledgement handler that takes every code for success
AckSucceeded_AnyCode(rc) == TRUE

\* _on_connect: rc == 0 sets the flag, any other rc clears it
AckSucceeded(rc) == rc = 0

\* a reconnection test that allows one attempt more than the budget
ShouldReconnect_OneMore(rc, attempts) ==
    rc # 0 /\ attempts <= max_connection_attempts

\* _on_disconnect: "if rc != 0 and self.connection_attempts <
\* self.max_connection_attempts"
ShouldReconnect(rc, attempts) ==
    rc # 0 /\ attempts < max_connection_attempts

\* a reconnection attempt that is not counted
AttemptsAfterDrop_Uncounted(attempts) == attempts

\* _on_disconnect: "self.connection_attempts += 1"
AttemptsAfterDrop(attempts) == attempts + 1

\* disconnect(): "if self.client and self.is_connected"
DisconnectActs(connected) == connected

\* a publish without the connection test
CanPublish_Always(connected) == TRUE

\* publish_order / publish_admin_command: "if not self.is_connected: return False"
CanPublish(connected) == connected

\* MQTTService.connect(), called by a request handler or at startup
Connect(ok) ==
    LET dials == ConnectDials(is_connected, sock)
    IN  /\ IF dials
           THEN /\ sock' = SockAfterConnect(ok)
                /\ loop_running' = (loop_running \/ ok)
                /\ attempt_origin' = IF ok THEN "explicit" ELSE "none"
           ELSE UNCHANGED <<sock, loop_running, attempt_origin>>
        /\ disconnect_requested' = FALSE
        /\ subscriptions' = IF dials THEN {} ELSE subscriptions
        /\ ch_last' = Before @@ [op |-> "connect", ret |-> ConnectRet(ok),
                                 dialed |-> dials]
        /\ UNCHANGED <<is_connected, connection_attempts, consec_drops,
                       ever_connected, last_connection_time>>
        /\ UNCHANGED msg_vars
        /\ UNCHANGED lim_vars
        /\ UNCHANGED aux_vars

\* MQTTService._on_connect(client, userdata, flags, rc)
OnConnect(rc, outcomes) ==
    /\ sock = "pending"
    /\ loop_running
    /\ IF AckSucceeded(rc)
       THEN /\ is_connected' = TRUE
            /\ connection_attempts' = 0
            /\ last_connection_time' = ch_now
            /\ sock' = "up"
            /\ attempt_origin' = "none"
            /\ consec_drops' = 0
            /\ ever_connected' = TRUE
            /\ subscriptions' = Granted(subscribe_to_topics(outcomes))
            /\ ch_last' = Before @@ [op |-> "on_connect", rc |-> rc,
                                     requests |-> subscribe_to_topics(outcomes)]
       ELSE /\ is_connected' = FALSE
            /\ sock' = "refused"
            /\ ch_last' = Before @@ [op |-> "on_connect", rc |-> rc,
                                     requests |-> <<>>]
            /\ UNCHANGED <<connection_attempts, attempt_origin, consec_drops,
                           ever_connected, subscriptions,
                           last_connection_time>>
    /\ UNCHANGED <<loop_running, disconnect_requested>>
    /\ UNCHANGED msg_vars
    /\ UNCHANGED lim_vars
    /\ UNCHANGED aux_vars

\* MQTTService._on_disconnect(client, userdata, rc), with the connect() it calls
OnDisconnect(rc, ok) ==
    LET retry == ShouldReconnect(rc, connection_attempts)
    IN  /\ sock # "none"
        /\ loop_running
        /\ is_connected' = FALSE
        /\ consec_drops' = IF rc # 0 THEN Min(consec_drops + 1, MaxDrops) ELSE 0
        /\ IF retry
           THEN /\ connection_attempts' = AttemptsAfterDrop(connection_attempts)
                /\ sock' = SockAfterConnect(ok)
                /\ attempt_origin' = IF ok THEN "auto" ELSE "none"
           ELSE /\ sock' = "none"
                /\ attempt_origin' = "none"
                /\ UNCHANGED connection_attempts
        /\ ch_last' = Before @@ [op |-> "on_disconnect", rc |-> rc,
                                 dialed |-> retry,
                                 ret |-> (retry /\ ConnectRet(ok))]
        /\ subscriptions' = {}
        /\ UNCHANGED <<loop_running, disconnect_requested, ever_connected,
                       last_connection_time>>
        /\ UNCHANGED msg_vars
        /\ UNCHANGED lim_vars
        /\ UNCHANGED aux_vars

\* MQTTService.disconnect()
Disconnect ==
    /\ IF DisconnectActs(is_connected)
       THEN /\ loop_running' = FALSE
            /\ sock' = "none"
            /\ is_connected' = FALSE
            /\ attempt_origin' = "none"
            /\ subscriptions' = {}
       ELSE UNCHANGED <<loop_running, sock, is_connected, attempt_origin,
                        subscriptions>>
    /\ disconnect_requested' = TRUE
    /\ ch_last' = Before @@ [op |-> "disconnect",
                             acted |-> DisconnectActs(is_connected)]
    /\ UNCHANGED <<connection_attempts, consec_drops, ever_connected,
                   last_connection_time>>
    /\ UNCHANGED msg_vars
    /\ UNCHANGED lim_vars
    /\ UNCHANGED aux_vars

PublishRet_IgnoresCode(sent, result) == sent /\ result # "raise"

\* the value a publish method returns: True only for MQTT_ERR_SUCCESS; a
\* non-success code and a raised exception (caught at "except Exception")
\* both give False
PublishRet(sent, result) == sent /\ result = "success"

\* the record of one publish call: sends counts the client.publish calls made
PublishRecord(op, topic, qos, sent, result) ==
    [op |-> op, topic |-> topic, qos |-> qos, sent |-> sent,
     result |-> IF sent THEN result ELSE "none",
     sends |-> IF sent THEN 1 ELSE 0,
     outcome |-> "returned",
     ret |-> PublishRet(sent, result)]

\* the shared body of the two publish methods
Publish(op, topic, qos, result) ==
    LET sent == CanPublish(is_connected)
    IN  /\ ch_last' = Before @@ PublishRecord(op, topic, qos, sent, result)
        /\ UNCHANGED <<is_connected, connection_attempts, sock, loop_running,
                       attempt_origin, consec_drops, disconnect_requested,
                       ever_connected, subscriptions, last_connection_time>>
        /\ UNCHANGED msg_vars
        /\ UNCHANGED lim_vars
        /\ UNCHANGED aux_vars

\* MQTTService.publish_order(order_id, item_id, slot_id, quantity)
PublishOrder(order_id, result) ==
    Publish("publish_order", <<"foodyeh", "order", order_id>>, 1, result)

\* MQTTService.publish_admin_command(command, parameters)
PublishAdminCommand(command, result) ==
    Publish("publish_admin_command", <<"foodyeh", "admin", command>>, 2, result)

\* a publish method up to its test of the flag ("if not self.is_connected"),
\* run by a request while callbacks and other requests run beside it
PublishCheck(p, op, topic, qos) ==
    /\ pub[p].pc = "idle"
    /\ IF CanPublish(is_connected)
       THEN /\ pub' = [pub EXCEPT ![p] = [pc |-> "checked", op |-> op,
                                          topic |-> topic, qos |-> qos]]
            /\ ch_last' = Before @@ [op |-> "publish_check", publisher |-> p]
       ELSE /\ UNCHANGED pub
            /\ ch_last' = Before @@ PublishRecord(op, topic, qos, FALSE, "none")
    /\ UNCHANGED <<is_connected, connection_attempts, sock, loop_running,
                   attempt_origin, consec_drops, disconnect_requested,
                   ever_connected, subscriptions, last_connection_time>>
    /\ UNCHANGED msg_vars
    /\ UNCHANGED lim_vars
    /\ UNCHANGED <<adm, calls, http_last>>

\* the rest of the publish method: the message is built and handed to
\* self.client.publish, and the return value computed
PublishHandOff(p, result) ==
    /\ pub[p].pc = "checked"
    /\ pub' = [pub EXCEPT ![p] = Idle]
    /\ ch_last' = Before @@ [op |-> "hand_off", publisher |-> p,
                             call |-> pub[p].op, topic |-> pub[p].topic,
                             result |-> result,
                             ret |-> PublishRet(TRUE, result)]
    /\ UNCHANGED <<is_connected, connection_attempts, sock, loop_running,
                   attempt_origin, consec_drops, disconnect_requested,
                   ever_connected, subscriptions, last_connection_time>>
    /\ UNCHANGED msg_vars
    /\ UNCHANGED lim_vars
    /\ UNCHANGED <<adm, calls, http_last>>

\* the topics of inbound messages: the broker delivers what a held
\* subscription matches
InboundTopics ==
    { <<"foodyeh", "status">>, <<"foodyeh", "order", "o1", "response">>,
      <<"foodyeh", "error">>, <<"foodyeh", "heartbeat">> }

RECURSIVE TopicMatches(_, _)
\* MQTT filter matching, "+" standing for one level
TopicMatches(filter, topic) ==
    IF filter = <<>> \/ topic = <<>>
    THEN filter = <<>> /\ topic = <<>>
    ELSE /\ Head(filter) \in {"+", Head(topic)}
         /\ TopicMatches(Tail(filter), Tail(topic))

\* the payload of an inbound message: JSON text, text that is not JSON,
\* bytes that are not UTF-8
PayloadKinds == {"json", "not_json", "not_utf8"}

\* the topics a handler may be registered under
HandlerTopics ==
    { <<"foodyeh", "status">>, <<"foodyeh", "order", "+", "response">>,
      <<"foodyeh", "order", "o1", "response">> }

Lookup_ByFilter(handlers, topic) == {h \in handlers : TopicMatches(h, topic)}

\* "if topic in self.message_handlers": the registry is a dict keyed by the
\* topic string
Lookup(handlers, topic) == {h \in handlers : h = topic}

\* what _on_message gets from msg.payload.decode('utf-8') and json.loads
Decoded(payload) == payload = "json"

\* the handlers _on_message calls: none unless the payload decodes
Invoked(handlers, topic, payload) ==
    IF Decoded(payload) THEN Lookup(handlers, topic) ELSE {}

Propagates_HandlerErrors(payload, invoked, handler_raises) ==
    invoked # {} /\ handler_raises

\* an exception leaves _on_message: UnicodeDecodeError is caught by the outer
\* "except Exception", JSONDecodeError by the inner handler with a return, a
\* handler's exception by the "except Exception" around the call
Propagates(payload, invoked, handler_raises) == FALSE

\* MQTTService.register_message_handler(topic, handler)
RegisterMessageHandler(topic) ==
    /\ message_handlers' = message_handlers \cup {topic}
    /\ ch_last' = Before @@ [op |-> "register_message_handler",
                             topic |-> topic]
    /\ UNCHANGED <<is_connected, connection_attempts, sock, loop_running,
                   attempt_origin, consec_drops, disconnect_requested,
                   ever_connected, subscriptions, last_connection_time,
                   ch_now, ch_ticks, last_message_time>>
    /\ UNCHANGED lim_vars
    /\ UNCHANGED aux_vars

\* MQTTService._on_message(client, userdata, msg); an exception that left the
\* callback would end the network thread that runs it
OnMessage(topic, payload, handler_raises) ==
    LET invoked == Invoked(message_handlers, topic, payload)
        propagated == Propagates(payload, invoked, handler_raises)
    IN  /\ sock = "up"
        /\ loop_running
        /\ \E f \in subscriptions : TopicMatches(f, topic)
        /\ last_message_time' = ch_now
        /\ loop_running' = (loop_running /\ ~propagated)
        /\ ch_last' = Before @@ [op |-> "on_message", topic |-> topic,
                                 payload |-> payload,
                                 decoded |-> Decoded(payload),
                                 registered |-> message_handlers,
                                 invoked |-> invoked,
                                 handler_raised |->
                                     (invoked # {} /\ handler_raises),
                                 propagated |-> propagated]
        /\ UNCHANGED <<is_connected, connection_attempts, sock,
                       attempt_origin, consec_drops, disconnect_requested,
                       ever_connected, subscriptions, last_connection_time,
                       ch_now, ch_ticks, message_handlers>>
        /\ UNCHANGED lim_vars
        /\ UNCHANGED aux_vars

\* the clock of the service advances
ChTick(d) ==
    /\ ch_ticks < MaxChTicks
    /\ ch_ticks' = ch_ticks + 1
    /\ ch_now' = ch_now + d
    /\ ch_last' = Before @@ [op |-> "tick", by |-> d]
    /\ UNCHANGED <<is_connected, connection_attempts, sock, loop_running,
                   attempt_origin, consec_drops, disconnect_requested,
                   ever_connected, subscriptions, last_connection_time,
                   last_message_time, message_handlers>>
    /\ UNCHANGED lim_vars
    /\ UNCHANGED aux_vars

\* the value of is_healthy(): lines 334-342
IsHealthyRet(connected, last_message, t) ==
    IF ~connected
    THEN FALSE
    ELSE IF last_message # NoTime /\ t - last_message > STALE_SECONDS
         THEN FALSE
         ELSE TRUE

\* MQTTService.is_healthy()
IsHealthy ==
    /\ ch_last' = Before @@ [op |-> "is_healthy", at |-> ch_now,
                             last_message |-> last_message_time,
                             last_connection |-> last_connection_time,
                             ret |-> IsHealthyRet(is_connected,
                                                  last_message_time, ch_now)]
    /\ UNCHANGED <<is_connected, connection_attempts, sock, loop_running,
                   attempt_origin, consec_drops, disconnect_requested,
                   ever_connected, subscriptions, last_connection_time>>
    /\ UNCHANGED msg_vars
    /\ UNCHANGED lim_vars
    /\ UNCHANGED aux_vars

\* MQTTService.get_connection_status()
GetConnectionStatus ==
    /\ ch_last' = Before @@ [op |-> "get_connection_status",
                             connected |-> is_connected,
                             last_connection |-> last_connection_time,
                             last_message |-> last_message_time,
                             connection_attempts |-> connection_attempts]
    /\ UNCHANGED <<is_connected, connection_attempts, sock, loop_running,
                   attempt_origin, consec_drops, disconnect_requested,
                   ever_connected, subscriptions, last_connection_time>>
    /\ UNCHANGED msg_vars
    /\ UNCHANGED lim_vars
    /\ UNCHANGED aux_vars

\* routers/status.py reconnect_mqtt: the role test, then
\* mqtt_service.disconnect() and mqtt_service.connect() one after the other
ReconnectMqtt(admin, ok) ==
    LET acts == admin /\ DisconnectActs(is_connected)
        dials == admin /\ ConnectDials(FALSE, IF acts THEN "none" ELSE sock)
    IN  /\ is_connected' = (is_connected /\ ~acts)
        /\ IF dials
           THEN /\ sock' = SockAfterConnect(ok)
                /\ loop_running' = ((loop_running /\ ~acts) \/ ok)
                /\ attempt_origin' = IF ok THEN "explicit" ELSE "none"
                /\ subscriptions' = {}
                /\ disconnect_requested' = FALSE
           ELSE UNCHANGED <<sock, loop_running, attempt_origin, subscriptions,
                            disconnect_requested>>
        /\ ch_last' = Before @@ [op |-> "reconnect_mqtt", admin |-> admin,
                                 acted |-> acts, dialed |-> dials,
                                 ret |-> (dials /\ ConnectRet(ok)),
                                 status |-> IF ~admin THEN 403
                                            ELSE IF ConnectRet(ok) THEN 200
                                            ELSE 500]
        /\ UNCHANGED <<connection_attempts, consec_drops, ever_connected,
                       last_connection_time>>
        /\ UNCHANGED msg_vars
        /\ UNCHANGED lim_vars
        /\ UNCHANGED aux_vars

\* the operations request handlers call, beside the callbacks
OwnershipNext ==
    \/ \E ok \in BOOLEAN : Connect(ok)
    \/ \E rc \in ConnackCodes : OnConnect(rc, AllSubscribed)
    \/ \E rc \in DisconnectCodes, ok \in BOOLEAN : OnDisconnect(rc, ok)
    \/ Disconnect
    \/ \E o \in OrderIds, r \in PublishResults : PublishOrder(o, r)
    \/ \E c \in Commands, r \in PublishResults : PublishAdminCommand(c, r)
    \/ GetConnectionStatus
    \/ IsHealthy
    \/ \E admin \in BOOLEAN, ok \in BOOLEAN : ReconnectMqtt(admin, ok)

HealthNext ==
    \/ \E ok \in BOOLEAN : Connect(ok)
    \/ \E rc \in ConnackCodes, outs \in SubscribeRuns : OnConnect(rc, outs)
    \/ \E rc \in DisconnectCodes, ok \in BOOLEAN : OnDisconnect(rc, ok)
    \/ Disconnect
    \/ \E t \in InboundTopics, pl \in PayloadKinds : OnMessage(t, pl, FALSE)
    \/ \E d \in ChTickSteps : ChTick(d)
    \/ IsHealthy

InboundNext ==
    \/ \E ok \in BOOLEAN : Connect(ok)
    \/ \E rc \in ConnackCodes, outs \in SubscribeRuns : OnConnect(rc, outs)
    \/ \E rc \in DisconnectCodes, ok \in BOOLEAN : OnDisconnect(rc, ok)
    \/ Disconnect
    \/ \E t \in HandlerTopics : RegisterMessageHandler(t)
    \/ \E t \in InboundTopics, pl \in PayloadKinds, hr \in BOOLEAN :
           OnMessage(t, pl, hr)

PublishRaceNext ==
    \/ \E ok \in BOOLEAN : Connect(ok)
    \/ \E rc \in ConnackCodes, outs \in SubscribeRuns : OnConnect(rc, outs)
    \/ \E rc \in DisconnectCodes, ok \in BOOLEAN : OnDisconnect(rc, ok)
    \/ Disconnect
    \/ \E p \in Publishers, o \in OrderIds :
           PublishCheck(p, "publish_order", <<"foodyeh", "order", o>>, 1)
    \/ \E p \in Publishers, c \in Commands :
           PublishCheck(p, "publish_admin_command",
                        <<"foodyeh", "admin", c>>, 2)
    \/ \E p \in Publishers, r \in PublishResults : PublishHandOff(p, r)

(***************************************************************************)
(* The routers: a request handler runs check_rate_limit, then publishes    *)
(* its command, then answers.                                              *)
(***************************************************************************)
\* the limits reboot_device and override_device pass to check_rate_limit
ADMIN_PER_MINUTE == 5
ADMIN_PER_HOUR == 20

\* what a handler does with publish's return value
\*   create_order: "Don't fail the request, but log the issue"
\*   cancel_order: the return value is not looked at
\*   reboot_device, override_device: raise HTTPException(500) when false
Endpoints ==
    { [name |-> "create_order", limit_per_minute |-> 0, limit_per_hour |-> 0,
       admin |-> FALSE, publish |-> "publish_order",
       topic |-> <<"foodyeh", "order", "o1">>, qos |-> 1,
       on_false |-> "log"],
      [name |-> "cancel_order", limit_per_minute |-> 0, limit_per_hour |-> 0,
       admin |-> FALSE, publish |-> "publish_admin_command",
       topic |-> <<"foodyeh", "admin", "cancel_order">>, qos |-> 2,
       on_false |-> "ignore"],
      [name |-> "reboot_device", limit_per_minute |-> ADMIN_PER_MINUTE,
       limit_per_hour |-> ADMIN_PER_HOUR,
       admin |-> TRUE, publish |-> "publish_admin_command",
       topic |-> <<"foodyeh", "admin", "reboot">>, qos |-> 2,
       on_false |-> "raise"],
      [name |-> "override_device", limit_per_minute |-> ADMIN_PER_MINUTE,
       limit_per_hour |-> ADMIN_PER_HOUR,
       admin |-> TRUE, publish |-> "publish_admin_command",
       topic |-> <<"foodyeh", "admin", "override">>, qos |-> 2,
       on_false |-> "raise"] }

Endpoint(name) == CHOOSE e \in Endpoints : e.name = name

\* the status code of the response once publish has returned
StatusAfterPublish(on_false, ret) ==
    IF ~ret /\ on_false = "raise" THEN 500 ELSE 200

\* one request through a publishing handler.  whitelisted: require_admin_ip
\* passes; valid: the handler's own validation of its input passes.
Handle(name, client_ip, token, whitelisted, valid, result) ==
    \E e \in {Endpoint(name)} :
    \E r \in {check_rate_limit(redis_store, now, redis_handle, store_up,
                               client_ip, token,
                               e.limit_per_minute, e.limit_per_hour)} :
    LET forbidden == e.admin /\ ~whitelisted
        publishes == ~forbidden /\ r.outcome \in {"skipped", "passed"} /\ valid
        sent == CanPublish(is_connected)
        ret == PublishRet(sent, result)
        base == [op |-> name, client_ip |-> client_ip, token |-> token,
                 check |-> IF forbidden THEN "none" ELSE r.outcome,
                 published |-> publishes]
    IN  /\ IF forbidden
           THEN UNCHANGED <<redis_store, cleared, lim_last>>
           ELSE /\ redis_store' = r.store
                /\ cleared' = {c \in cleared :
                                 \A i \in DOMAIN r.checked : r.checked[i] # c[1]}
                /\ lim_last' = [op |-> "check", client_ip |-> client_ip,
                                token |-> token,
                                limit_per_minute |-> e.limit_per_minute,
                                limit_per_hour |-> e.limit_per_hour,
                                at |-> now, handle |-> redis_handle,
                                up |-> store_up,
                                outcome |-> r.outcome, detail |-> r.detail,
                                checked |-> r.checked]
        /\ ch_last' = IF publishes
                      THEN Before @@ PublishRecord(e.publish, e.topic, e.qos,
                                                   sent, result)
                      ELSE ch_last
        /\ http_last' =
              IF forbidden
              THEN base @@ [status |-> 403, detail |-> NoDetail,
                            publish_ret |-> FALSE]
              ELSE IF r.outcome = "denied"
              THEN base @@ [status |-> 429, detail |-> r.detail,
                            publish_ret |-> FALSE]
              ELSE IF r.outcome = "raised"
              THEN base @@ [status |-> 500, detail |-> NoDetail,
                            publish_ret |-> FALSE]
              ELSE IF ~valid
              THEN base @@ [status |-> 400, detail |-> NoDetail,
                            publish_ret |-> FALSE]
              ELSE base @@ [status |-> StatusAfterPublish(e.on_false, ret),
                            detail |-> NoDetail, publish_ret |-> ret]
        /\ UNCHANGED <<now, ticks, store_up, redis_handle>>
        /\ UNCHANGED <<is_connected, connection_attempts, sock, loop_running,
                       attempt_origin, consec_drops, disconnect_requested,
                       ever_connected, subscriptions, last_connection_time>>
        /\ UNCHANGED msg_vars
        /\ UNCHANGED <<adm, pub, calls>>

\* routers/order.py create_order: the body is validated before the handler runs
CreateOrder(client_ip, token, result) ==
    Handle("create_order", client_ip, token, TRUE, TRUE, result)

\* routers/order.py cancel_order
CancelOrder(client_ip, token, valid, result) ==
    Handle("cancel_order", client_ip, token, TRUE, valid, result)

\* routers/admin.py reboot_device
RebootDevice(client_ip, token, whitelisted, result) ==
    Handle("reboot_device", client_ip, token, whitelisted, TRUE, result)

\* routers/admin.py override_device
OverrideDevice(client_ip, token, whitelisted, valid, result) ==
    Handle("override_device", client_ip, token, whitelisted, valid, result)

\* the bearer tokens of authenticated requests
BearerTokens == Tokens \ {NoToken}

\* the store after n requests of client a with token t1 in the seconds
\* before t, one a second
StoreAfterRequests(n, t) ==
    [k \in Keys |-> IF n = 0 \/ <<k[2], k[3]>> \notin Identities THEN NoKey
                    ELSE [members |-> (t - n)..(t - 1),
                          expire_at |-> t - 1 +
                              (IF k[4] = "minute" THEN MINUTE_SECONDS
                               ELSE HOUR_SECONDS)]]

\* the service starts while the limiter has served 0 or ADMIN_PER_MINUTE
\* requests of the client within the current minute
RequestsInit ==
    /\ now \in StartTimes
    /\ ticks = 0
    /\ store_up \in BOOLEAN
    /\ redis_handle = store_up
    /\ redis_store \in {StoreAfterRequests(n, now) : n \in {0, ADMIN_PER_MINUTE}}
    /\ cleared = {}
    /\ lim_last = [op |-> "init"]
    /\ ChInit
    /\ AuxInit

RequestsNext ==
    \/ \E ip \in ClientIps, tok \in BearerTokens, r \in PublishResults :
           CreateOrder(ip, tok, r)
    \/ \E ip \in ClientIps, tok \in BearerTokens, v \in BOOLEAN,
          r \in PublishResults :
           CancelOrder(ip, tok, v, r)
    \/ \E ip \in ClientIps, tok \in BearerTokens, w \in BOOLEAN,
          r \in PublishResults :
           RebootDevice(ip, tok, w, r)
    \/ \E ip \in ClientIps, tok \in BearerTokens, w \in BOOLEAN, v \in BOOLEAN,
          r \in PublishResults :
           OverrideDevice(ip, tok, w, v, r)
    \/ \E ok \in BOOLEAN : Connect(ok)
    \/ \E rc \in ConnackCodes : OnConnect(rc, AllSubscribed)
    \/ Disconnect
    \/ Tick(1)

ChNext ==
    \/ \E ok \in BOOLEAN : Connect(ok)
    \/ \E rc \in ConnackCodes, outs \in SubscribeRuns : OnConnect(rc, outs)
    \/ \E rc \in DisconnectCodes, ok \in BOOLEAN : OnDisconnect(rc, ok)
    \/ Disconnect
    \/ \E o \in OrderIds, r \in PublishResults : PublishOrder(o, r)
    \/ \E c \in Commands, r \in PublishResults : PublishAdminCommand(c, r)

(***************************************************************************)
(* Specifications                                                          *)
(***************************************************************************)
Init == LimInit /\ ChInit /\ AuxInit

Next ==
    LimNext \/ WindowNext \/ FacadeNext \/ RaceNext \/ ChNext \/ PublishRaceNext \/ HealthNext
    \/ RequestsNext \/ InboundNext \/ OwnershipNext \/ BurstNext
    \/ IsolationNext \/ DegradedNext

Spec == Init /\ [][Next]_vars

\* the limiter alone, the channel idle
SpecLimiter == Init /\ [][LimNext]_vars

\* the channel alone, the limiter idle
SpecChannel == Init /\ [][ChNext]_vars

\* _is_rate_limited calls and the clock, every call entered in the call log
SpecWindow == Init /\ [][WindowNext]_vars

\* recorded _is_rate_limited calls that all use one limit
SpecBurst == Init /\ [][BurstNext]_vars

\* the limiter serving several identities
SpecIsolation == Init /\ [][IsolationNext]_vars

\* a limiter constructed while the store was unreachable
DegradedInit == Init /\ ~store_up

\* the limiter that found no store at construction
SpecDegraded == DegradedInit /\ [][DegradedNext]_vars

\* requests passing through check_rate_limit
SpecFacade == Init /\ [][FacadeNext]_vars

\* concurrent _is_rate_limited calls against the store
SpecAdmitRace == Init /\ [][RaceNext]_vars

\* the channel with its clock, inbound messages and the health probe
SpecHealth == Init /\ [][HealthNext]_vars

\* requests through the publishing handlers of the routers
SpecRequests == RequestsInit /\ [][RequestsNext]_vars

\* the channel with every operation a request handler calls on it
SpecOwnership == Init /\ [][OwnershipNext]_vars

\* inbound messages and the handler registry
SpecInbound == Init /\ [][InboundNext]_vars

\* publish calls running beside the callbacks and other requests
SpecPublishRace == Init /\ [][PublishRaceNext]_vars

(***************************************************************************)
(* Properties                                                              *)
(***************************************************************************)
Budget == max_connection_attempts

IsAdmit == lim_last.op = "admit"
IsPublish == ch_last.op \in {"publish_order", "publish_admin_command"}

\* C1: calls on one fresh key within one clock second are counted one by one:
\* the n-th call of the burst reports current = n and is denied exactly when
\* n exceeds the limit, so the first L are admitted and the (L+1)th is denied.
C1_BurstCounted ==
    (IsAdmit /\ lim_last.outcome = "returned" /\ lim_last.handle
        /\ lim_last.run_n >= 1 /\ lim_last.run_n < MaxRun)
    => /\ lim_last.current_count = lim_last.run_n
       /\ lim_last.is_limited <=> (lim_last.run_n > lim_last.limit)

\* C2: an admit check made while the store is unreachable returns and allows:
\* it neither denies nor raises.
C2_FailOpen ==
    (IsAdmit /\ ~lim_last.up)
    => (lim_last.outcome = "returned" /\ ~lim_last.is_limited)

\* C3: a publish called in a state other than CONNECTED returns false and hands
\* no message to the broker client.
C3_PublishOnlyConnected ==
    (IsPublish /\ ch_last.was_state # "CONNECTED")
    => (~ch_last.ret /\ ~ch_last.sent)

C3_Witness ==
    /\ IsPublish
    /\ ch_last.was_state = "FAILED"
    /\ ~ch_last.ret

\* C4 as stated: after Budget consecutive unexpected disconnects the state is
\* FAILED and stays so unless connect() is explicitly invoked.
C4_FailedAtBudget ==
    (consec_drops = Budget /\ attempt_origin # "explicit")
    => ChannelState = "FAILED"

\* C4 amended: Budget consecutive unexpected disconnects bring attemptCount to
\* Budget; from then on an unexpected disconnect starts no reconnection
\* attempt, and after Budget + 1 of them the state is FAILED and stays FAILED
\* unless connect() is explicitly invoked.
C4_FailedAfterBudget ==
    /\ consec_drops >= Budget => connection_attempts = Budget
    /\ (ch_last.op = "on_disconnect" /\ ch_last.drops_before >= Budget)
       => ~ch_last.dialed
    /\ (consec_drops >= Budget + 1 /\ attempt_origin # "explicit")
       => ChannelState = "FAILED"

C4_Witness ==
    /\ ch_last.op = "on_disconnect"
    /\ consec_drops = Budget + 1
    /\ ChannelState = "FAILED"

\* C5: once a connection was established and dropped, the reconnection
\* attempts go on until one succeeds or Budget attempts have failed: whenever
\* _on_disconnect leaves the channel with no attempt in flight, attemptCount
\* is Budget.
C5_AttemptsUntilBudget ==
    (/\ ch_last.op = "on_disconnect"
     /\ ch_last.rc # 0
     /\ ever_connected
     /\ sock = "none")
    => (ChannelState = "FAILED" /\ connection_attempts = Budget)

C7_ConnectIdempotent ==
    (ch_last.op = "connect" /\ ch_last.was_state \in {"CONNECTING", "CONNECTED"})
    => ~ch_last.dialed

\* C8: after an explicit disconnect(), and until connect() is called again, the
\* channel does not become connected and no disconnect callback starts a
\* reconnection attempt.
C8_DisconnectTerminal ==
    disconnect_requested
    => /\ ~is_connected
       /\ ~(ch_last.op = "on_disconnect" /\ ch_last.dialed)

\* C9: the first admit on a key after a successful clear of its identity
\* reports currentCount = 1 and is allowed, whatever the key held before.
C9_FreshAfterClear ==
    (IsAdmit /\ lim_last.after_clear >= 0 /\ lim_last.outcome = "returned")
    => (lim_last.current_count = 1 /\ ~lim_last.is_limited)

C9_Witness ==
    /\ IsAdmit
    /\ lim_last.after_clear >= 2
    /\ lim_last.limit = 1
    /\ lim_last.outcome = "returned"

\* C10: with the store reachable, clear returns success whether or not the keys
\* existed, leaves neither the minute nor the hour counter of the identity, and
\* applied to an identity without counters it leaves the store as it is.
C10_ClearIdempotent ==
    [][(lim_last'.op = "clear" /\ redis_handle /\ store_up)
       => /\ lim_last'.ret
          /\ \A w \in Windows :
                redis_store'[generate_key(lim_last'.limit_type,
                                          lim_last'.identifier, w)] = NoKey
          /\ (\A w \in Windows :
                redis_store[generate_key(lim_last'.limit_type,
                                         lim_last'.identifier, w)] = NoKey)
             => redis_store' = redis_store]_vars

C10_Witness ==
    /\ lim_last.op = "clear"
    /\ lim_last.ret
    /\ lim_last.again
    /\ Cardinality(lim_last.prev_held) = 2

\* C11: concurrent admit calls on one fresh key, within one window, with one
\* limit L: once all k have returned, they have reported k distinct
\* cardinalities and exactly min(k, L) of them were allowed.
C11_ConcurrentCounts ==
    (/\ \A p \in Callers : adm[p].pc = "done" /\ adm[p].outcome = "returned"
     /\ \A p, q \in Callers :
           /\ adm[p].key = adm[q].key
           /\ adm[p].limit = adm[q].limit
           /\ WindowStart(adm[p].t, adm[p].window_seconds)
                = WindowStart(adm[q].t, adm[q].window_seconds))
    => /\ \A p, q \in Callers :
             p # q => adm[p].current_count # adm[q].current_count
       /\ Cardinality({p \in Callers : ~adm[p].is_limited})
            = Min(NumCallers, adm[1].limit)

\* C12: in every interleaving of publish calls with on_disconnect,
\* disconnect() and one another, a message is handed to the broker client
\* only while the state is CONNECTED at the moment of the hand-off.
C12_HandOffOnlyConnected ==
    ch_last.op = "hand_off" => ch_last.was_state = "CONNECTED"

\* C13: every transition into CONNECTED, the first or one after a
\* reconnection, comes with a subscribe request for each topic of the fixed
\* set (status, per-order response pattern, error, heartbeat), made by the
\* same callback before anything else can change the state.
C13_SubscribesOnConnected ==
    (ch_last.op = "on_connect" /\ ChannelState = "CONNECTED")
    => \A t \in { <<"foodyeh", "status">>,
                  <<"foodyeh", "order", "+", "response">>,
                  <<"foodyeh", "error">>,
                  <<"foodyeh", "heartbeat">> } :
          \E i \in DOMAIN ch_last.requests : ch_last.requests[i].topic = t

C13_Witness ==
    /\ ch_last.op = "on_connect"
    /\ ChannelState = "CONNECTED"
    /\ ch_last.was_state = "RECONNECTING"
    /\ Len(ch_last.requests) = 4
    /\ ch_last.requests[1].outcome = "raise"

\* C14: is_healthy() is false when the state is not CONNECTED; when it is
\* CONNECTED it is true if the latest inbound message is at most 300 s old and
\* false if that message is older, and false as well when no message was
\* ever received and the connection is older than 300 s.
C14_HealthyIffFresh ==
    ch_last.op = "is_healthy"
    => /\ ch_last.was_state # "CONNECTED" => ~ch_last.ret
       /\ (/\ ch_last.was_state = "CONNECTED"
           /\ ch_last.last_message # NoTime
           /\ ch_last.at - ch_last.last_message <= 300) => ch_last.ret
       /\ (/\ ch_last.was_state = "CONNECTED"
           /\ ch_last.last_message # NoTime
           /\ ch_last.at - ch_last.last_message > 300) => ~ch_last.ret
       /\ (/\ ch_last.was_state = "CONNECTED"
           /\ ch_last.last_message = NoTime
           /\ ch_last.at - ch_last.last_connection > 300) => ~ch_last.ret

IsCheck == lim_last.op = "check"

\* C15: the checks of one request run in the order IP-minute, IP-hour,
\* token-minute, token-hour, and the first denial ends the request: the
\* counters of the keys that come later in the order are left as they were.
C15_DenialShortCircuits ==
    [][(lim_last'.op = "check" /\ lim_last'.outcome = "denied")
        => LET order == << generate_key("ip", lim_last'.client_ip, "minute"),
                           generate_key("ip", lim_last'.client_ip, "hour"),
                           generate_key("token", "a", "minute"),
                           generate_key("token", "a", "hour") >>
               denying ==
                   (IF lim_last'.detail.error = "Rate limit exceeded"
                    THEN 0 ELSE 2)
                   + (IF lim_last'.detail.limit_type = "per_minute"
                      THEN 1 ELSE 2)
           IN  \A j \in 1..4 :
                  j > denying => redis_store'[order[j]] = redis_store[order[j]]
      ]_vars

\* C18: a denial carries the scope, limit type, limit, count and seconds to
\* reset of the first failing check in the order IP-minute, IP-hour,
\* token-minute, token-hour; with both IP-minute and IP-hour exceeded it
\* reports per_minute with the minute counter's count and limit.
C18_DenialNamesFirstFailing ==
    [][(lim_last'.op = "check" /\ lim_last'.outcome = "denied")
        => LET per_minute == IF lim_last'.limit_per_minute = 0 THEN 60
                             ELSE lim_last'.limit_per_minute
               per_hour == IF lim_last'.limit_per_hour = 0 THEN 1000
                           ELSE lim_last'.limit_per_hour
               Count(key, w) ==
                   Cardinality({m \in redis_store[key].members :
                                   m >= now - (now % w)} \cup {now})
               One(scope, id, window, kind, w, limit) ==
                   [scope |-> scope, limit_type |-> kind, limit |-> limit,
                    current |-> Count(generate_key(scope, id, window), w),
                    reset |-> w - (now % w)]
               checks ==
                   << One("ip", lim_last'.client_ip, "minute", "per_minute",
                          60, per_minute),
                      One("ip", lim_last'.client_ip, "hour", "per_hour",
                          3600, per_hour),
                      One("token", "a", "minute", "per_minute",
                          60, per_minute),
                      One("token", "a", "hour", "per_hour",
                          3600, per_hour) >>
               run == IF lim_last'.token = "none" THEN 1..2 ELSE 1..4
               failing == {i \in run : checks[i].current > checks[i].limit}
               first == CHOOSE i \in failing : \A j \in failing : i <= j
           IN  /\ failing # {}
               /\ lim_last'.detail.error =
                     (IF checks[first].scope = "ip"
                      THEN "Rate limit exceeded"
                      ELSE "Token rate limit exceeded")
               /\ lim_last'.detail.limit_type = checks[first].limit_type
               /\ lim_last'.detail.limit = checks[first].limit
               /\ lim_last'.detail.current = checks[first].current
               /\ lim_last'.detail.reset_in_seconds = checks[first].reset
      ]_vars

C18_Witness ==
    /\ IsCheck
    /\ lim_last.outcome = "denied"
    /\ lim_last.detail.error = "Rate limit exceeded"
    /\ lim_last.detail.limit_type = "per_minute"
    /\ lim_last.limit_per_hour # 0
    /\ ZCard(redis_store[generate_key("ip", lim_last.client_ip, "hour")].members)
         > lim_last.limit_per_hour

\* C16: every admit that ran against the store is allowed exactly when the
\* count it reports is at most the limit; the count is at least 1 and
\* includes the call's own event, so a call that brings the count to exactly
\* the limit is allowed.
C16_AllowedIffWithinLimit ==
    (IsAdmit /\ lim_last.outcome = "returned" /\ lim_last.handle)
    => /\ ~lim_last.is_limited <=> (lim_last.current_count <= lim_last.limit)
       /\ lim_last.current_count >= 1
       /\ lim_last.at \in redis_store[lim_last.key].members

C16_Witness ==
    /\ IsAdmit
    /\ lim_last.outcome = "returned"
    /\ lim_last.handle
    /\ lim_last.current_count = 2
    /\ lim_last.limit = 2
    /\ ~lim_last.is_limited

\* C17: the count an admit reports is exactly the number of admit calls made
\* for its key, itself included, with a time in [now - W, now]: every call
\* contributes one event and only events older than now - W are pruned.
C17_CountIsCallsInWindow ==
    (IsAdmit /\ lim_last.outcome = "returned" /\ lim_last.handle)
    => lim_last.current_count =
          Cardinality({c \in calls :
                          /\ c[1] = lim_last.key
                          /\ c[2] >= lim_last.at - lim_last.window_seconds
                          /\ c[2] <= lim_last.at})

\* C19: a publish call makes at most one send attempt and returns false for
\* every failure (not connected, non-success code from the client, send
\* raising); it never raises, and it keeps nothing for a later delivery: the
\* service is left as it was.
C19_PublishFailsFalse ==
    [][(ch_last'.op \in {"publish_order", "publish_admin_command"})
        => /\ ch_last'.outcome = "returned"
           /\ ch_last'.sends <= 1
           /\ ~is_connected => (~ch_last'.ret /\ ch_last'.sends = 0)
           /\ ch_last'.result \in {"error", "raise"} => ~ch_last'.ret
           /\ ch_last'.ret => (is_connected /\ ch_last'.result = "success")
           /\ UNCHANGED <<is_connected, connection_attempts, sock,
                          loop_running, attempt_origin, subscriptions,
                          last_connection_time, last_message_time>>
      ]_vars

C19_Witness ==
    /\ IsPublish
    /\ ch_last.was_connected
    /\ ch_last.result = "raise"
    /\ ch_last.sends = 1
    /\ ~ch_last.ret

IsRequest ==
    http_last.op \in {"create_order", "cancel_order", "reboot_device",
                      "override_device"}

\* C20: a request whose command publish returned false (vend order, order
\* cancellation, admin reboot or override) ends with an explicit failure
\* response, not a success response; a request the limiter denied ends with
\* the structured 429 signal.
C20_FailuresNeverSilent ==
    IsRequest
    => /\ (http_last.published /\ ~http_last.publish_ret)
             => http_last.status >= 400
       /\ http_last.check = "denied"
             => /\ http_last.status = 429
                /\ http_last.detail.error \in {"Rate limit exceeded",
                                               "Token rate limit exceeded"}
                /\ ~http_last.published

\* C21: processing an inbound message leaves the connection state and the
\* attempt count as they were and lets no exception out of the callback,
\* whether the payload fails to decode (no handler is invoked), no handler is
\* registered for the topic, or the registered handler raises.
C21_MessageLeavesConnection ==
    [][ch_last'.op = "on_message"
        => /\ is_connected' = is_connected
           /\ connection_attempts' = connection_attempts
           /\ ChannelState' = ChannelState
           /\ sock' = sock /\ loop_running' = loop_running
           /\ ~ch_last'.propagated
           /\ ~ch_last'.decoded => ch_last'.invoked = {}
      ]_vars

C21_Witness ==
    /\ ch_last.op = "on_message"
    /\ ch_last.handler_raised
    /\ ChannelState = "CONNECTED"

\* C26: inbound dispatch is by exact topic.  For a decodable payload the
\* handler registered under exactly the message's topic is invoked, once,
\* and no other; a handler registered under the per-order pattern is not
\* invoked for a concrete per-order response topic; with no handler for the
\* topic nothing changes but the last-message time.
C26_ExactTopicDispatch ==
    [][ch_last'.op = "on_message"
        => /\ ch_last'.invoked =
                 (IF ch_last'.decoded /\ ch_last'.topic \in message_handlers
                  THEN {ch_last'.topic} ELSE {})
           /\ Cardinality(ch_last'.invoked) <= 1
           /\ ch_last'.topic = <<"foodyeh", "order", "o1", "response">>
                 => <<"foodyeh", "order", "+", "response">>
                        \notin ch_last'.invoked
           /\ ch_last'.invoked = {}
                 => UNCHANGED <<is_connected, connection_attempts, sock,
                                loop_running, attempt_origin, subscriptions,
                                last_connection_time, message_handlers,
                                consec_drops, disconnect_requested,
                                ever_connected>>
      ]_vars

C26_Witness ==
    /\ ch_last.op = "on_message"
    /\ ch_last.decoded
    /\ ch_last.topic = <<"foodyeh", "order", "o1", "response">>
    /\ <<"foodyeh", "order", "+", "response">> \in ch_last.registered
    /\ ch_last.invoked = {}

\* C22: no operation a request handler invokes (publish_order,
\* publish_admin_command, get_connection_status, is_healthy, disconnect(),
\* connect(), and the two in sequence as force-reconnect) writes the
\* connected flag or the attempt count.
C22_RequestsLeaveState ==
    [][ch_last'.op \in {"publish_order", "publish_admin_command",
                        "get_connection_status", "is_healthy",
                        "disconnect", "connect", "reconnect_mqtt"}
        => /\ is_connected' = is_connected
           /\ connection_attempts' = connection_attempts
      ]_vars

\* C23: every admit that ran against the store at time now with window W
\* reports resetInSeconds = W - (now mod W), a value from 1 to W, and that
\* is the real reset point: the next admit on the key, made exactly that
\* many seconds later with none in between, reports a count of 1.
C23_ResetPoint ==
    (IsAdmit /\ lim_last.outcome = "returned" /\ lim_last.handle)
    => LET W == lim_last.window_seconds
           mine == {c \in calls : c[1] = lim_last.key}
       IN  /\ lim_last.remaining = W - (lim_last.at % W)
           /\ lim_last.remaining >= 1
           /\ lim_last.remaining <= W
           /\ (/\ \E c \in mine : c[2] + (W - (c[2] % W)) = lim_last.at
               /\ \A c \in mine :
                     c[2] + (W - (c[2] % W)) <= lim_last.at \/ c[2] = lim_last.at
               /\ Cardinality({c \in mine : c[2] = lim_last.at}) = 1)
              => lim_last.current_count = 1

C23_Witness ==
    /\ IsAdmit
    /\ lim_last.outcome = "returned"
    /\ lim_last.handle
    /\ lim_last.window_seconds = 3600
    /\ lim_last.at = 3600
    /\ lim_last.current_count = 1
    /\ \E c \in calls : c[1] = lim_last.key /\ c[2] = 58

\* C24: for one key whose calls all use the limit L and the window W, at
\* most L calls are allowed inside one aligned window, and at most 2 * L in
\* any span of W seconds.
C24_AllowedPerWindow ==
    \A k \in Keys :
        LET W == WindowSeconds(k[4])
            allowed == {c \in calls : c[1] = k /\ c[4]}
        IN  \A c \in allowed :
                /\ Cardinality({d \in allowed :
                                   d[2] - (d[2] % W) = c[2] - (c[2] % W)})
                      <= MaxLimit
                /\ Cardinality({d \in allowed :
                                   d[2] >= c[2] /\ d[2] < c[2] + W})
                      <= 2 * MaxLimit

\* C25: after an unexpected disconnect the channel comes back to CONNECTED by
\* its own reconnection attempts whenever the broker accepts one of the first
\* Budget attempts: a reconnection attempt that failed short of the budget is
\* followed by the next attempt, so the channel never rests there waiting for
\* an external connect().
C25_FailedAttemptRetried ==
    (/\ ch_last.op = "on_disconnect"
     /\ ch_last.rc # 0
     /\ ch_last.was_state \in {"CONNECTED", "RECONNECTING"}
     /\ ch_last.dialed
     /\ ~ch_last.ret
     /\ connection_attempts < Budget)
    => ChannelState = "RECONNECTING"

\* C27: attemptCount stays within 0..Budget.  It grows by exactly one in an
\* unexpected disconnect that starts a reconnection attempt, is left as it is
\* by a disconnect with rc = 0 and by connect(), is set to 0 by a successful
\* acknowledgement, and changes in no other step.
C27_AttemptCount ==
    [][/\ connection_attempts' \in 0..Budget
       /\ (ch_last'.op = "on_disconnect" /\ ch_last'.dialed)
          => (ch_last'.rc # 0 /\ connection_attempts' = connection_attempts + 1)
       /\ (ch_last'.op = "on_disconnect" /\ ~ch_last'.dialed)
          => connection_attempts' = connection_attempts
       /\ ch_last'.op \in {"connect", "disconnect"}
          => connection_attempts' = connection_attempts
       /\ (ch_last'.op = "on_connect" /\ ch_last'.rc = 0)
          => connection_attempts' = 0
       /\ connection_attempts' # connection_attempts
          => \/ ch_last'.op = "on_disconnect" /\ ch_last'.rc # 0
             \/ ch_last'.op = "on_connect" /\ ch_last'.rc = 0
       /\ (connection_attempts' = 0 /\ connection_attempts # 0)
          => (ch_last'.op = "on_connect" /\ ch_last'.rc = 0)]_vars

C27_Witness ==
    /\ ch_last.op = "on_disconnect"
    /\ ch_last.rc # 0
    /\ ch_last.dialed
    /\ connection_attempts = Budget

\* C28: the calls of one identity share one counter per window whatever
\* limit each passes: an admit made with the limit L' after n calls on its
\* key were admitted in the same aligned window reports the count n + 1 and
\* is denied exactly when n + 1 > L'.
C28_SharedCounter ==
    (IsAdmit /\ lim_last.outcome = "returned" /\ lim_last.handle)
    => LET W == lim_last.window_seconds
           window == {c \in calls :
                         /\ c[1] = lim_last.key
                         /\ c[2] - (c[2] % W) = lim_last.at - (lim_last.at % W)}
           this == Cardinality({c \in window : c[2] = lim_last.at})
           earlier == {c \in window : ~(c[2] = lim_last.at /\ c[3] = this)}
           n == Cardinality(earlier)
       IN  (\A c \in earlier : c[4])
           => /\ lim_last.current_count = n + 1
              /\ lim_last.is_limited <=> (n + 1 > lim_last.limit)

\* C29: identities are independent.  An admit changes no counter but the one
\* of its own (scope, identifier, window), and its count is computed from
\* that counter, the clock and nothing else; a check changes only counters of
\* the address and the token of its request; a clear changes only the two
\* counters of its (scope, identifier).  So the operations of one identity
\* never show in the decisions and counts of another.
C29_IdentitiesIndependent ==
    [][/\ lim_last'.op = "admit"
          => /\ \A k \in Keys :
                   (k[2] # lim_last'.prefix \/ k[3] # lim_last'.identifier
                    \/ k[4] # (IF lim_last'.window_seconds = 60
                               THEN "minute" ELSE "hour"))
                   => redis_store'[k] = redis_store[k]
             /\ (lim_last'.handle /\ lim_last'.up)
                => LET own == <<"rate_limit", lim_last'.prefix,
                                lim_last'.identifier,
                                (IF lim_last'.window_seconds = 60
                                 THEN "minute" ELSE "hour")>>
                       W == lim_last'.window_seconds
                       kept == {m \in redis_store[own].members :
                                   m >= now - (now % W)}
                   IN  lim_last'.current_count = Cardinality(kept \cup {now})
       /\ lim_last'.op = "check"
          => \A k \in Keys :
                (~(k[2] = "ip" /\ k[3] = lim_last'.client_ip)
                 /\ ~(/\ k[2] = "token"
                      /\ lim_last'.token # NoToken
                      /\ k[3] = token_hash(lim_last'.token)))
                => redis_store'[k] = redis_store[k]
       /\ lim_last'.op = "clear"
          => \A k \in Keys :
                (k[2] # lim_last'.limit_type \/ k[3] # lim_last'.identifier)
                => redis_store'[k] = redis_store[k]
      ]_vars

\* a clear of one address that removed its counters while the other address
\* and the token of the same name held counters of their own
C29_Witness ==
    /\ lim_last.op = "clear"
    /\ lim_last.limit_type = "ip"
    /\ lim_last.identifier = "a"
    /\ lim_last.ret
    /\ lim_last.held # {}
    /\ redis_store[<<"rate_limit", "ip", "b", "minute">>].members # {}
    /\ redis_store[<<"rate_limit", "token", "a", "minute">>].members # {}

\* C30: a limiter constructed while the store was unreachable stays degraded
\* for good, whether or not the store comes back: it keeps no handle, every
\* admit is allowed with the count 0, every check passes unexamined, no
\* counter is written, and every clear returns failure.
C30_DegradedForGood ==
    [][~redis_handle
       => /\ ~redis_handle'
          /\ \A k \in Keys : redis_store'[k].members = redis_store[k].members
          /\ lim_last'.op = "admit"
             => /\ lim_last'.outcome = "returned"
                /\ ~lim_last'.is_limited
                /\ lim_last'.current_count = 0
          /\ lim_last'.op = "check"
             => (lim_last'.outcome = "skipped" /\ lim_last'.checked = <<>>)
          /\ lim_last'.op = "clear" => ~lim_last'.ret
      ]_vars

\* a clear made after the store came back
C30_Witness ==
    /\ ~redis_handle
    /\ store_up
    /\ lim_last.op = "clear"
    /\ ~lim_last.ret

====
